---------------------------- MODULE Spec2Model ----------------------------
(***************************************************************************)
(* A model of muratmaga/repoStats: the release catalog and the revision    *)
(* classifier of ExtensionStatsLogic, its download aggregator, the name    *)
(* resolver of collect_extension_stats.py and the runs of the entry        *)
(* points.  Python values are modelled by what the interpreter does with   *)
(* them: strings are TLA+ strings taken apart character by character,      *)
(* JSON values are tagged records, and an operation that can raise yields  *)
(* a record [ok |-> FALSE, exc |-> <exception>].                           *)
(***************************************************************************)
EXTENDS Integers, Sequences, FiniteSets, TLC

VARIABLES
    pc,              \* position of the modelled call or run
    revision,        \* argument of getSlicerReleaseName
    release,         \* value getSlicerReleaseName returned
    raised,          \* exception that left the last call ("none": returned)
    server,          \* the JSON document the extensions server holds
    downloadstats,   \* ExtensionStatsLogic.downloadstats, per instance
    extensionNames,  \* argument of the last getExtensionDownloadStats call
    response,        \* what the server answered to the last request
    table,           \* value the last getExtensionDownloadStats call returned
    requests,        \* number of GET requests sent in this run
    entry,           \* entry point of the run
    exitCode,        \* exit status of the run (-1: still running)
    report,          \* whether the run wrote a report (CSV or JSON or console)
    failedFetch,     \* whether some request of the run failed
    known,           \* all_extensions: the names the server knows
    repos,           \* repos_data['repositories']
    repoIdx,         \* number of repositories the loop has processed
    extension_names, \* list built by identify_slicer_extensions
    catalog,         \* ExtensionStatsLogic.releases_revisionsDates of the instance
    releaseNames,    \* value the last getSlicerReleaseNames call returned
    output,          \* what the run writes: a CSV file, a JSON file, the console
    csv,             \* rows of the CSV file the run wrote
    console,         \* lines the console summary printed
    markdown,        \* value create_markdown_table returned
    json_text,       \* text of the traffic-history file
    all_views        \* all_views of parse_concatenated_json

classifyVars == <<revision, release>>
logicVars    == <<server, downloadstats, extensionNames, response, table>>
runVars      == <<requests, entry, exitCode, report, failedFetch>>
resolveVars  == <<known, repos, repoIdx, extension_names>>
catalogVars  == <<catalog, releaseNames>>
reportVars   == <<output, csv, console, markdown>>
trafficVars  == <<json_text, all_views>>
vars == <<pc, raised, classifyVars, logicVars, runVars, resolveVars,
          catalogVars, reportVars, trafficVars>>

---------------------------------------------------------------------------
(* Bounds of the model.                                                    *)

\* largest download count of a cell of a generated stats document
MaxCount == 2
\* largest number of revision keys of a generated stats document
MaxRevs == 2
\* largest number of repositories of a generated repos.json
MaxRepos == 2
\* largest number of revision keys of the server's document in a whole run
MaxRunRevs == 1
\* largest number of JSON objects in a traffic-history file
MaxObjects == 3

---------------------------------------------------------------------------
(* Python strings.                                                         *)

\* the characters the model's strings use, in code-point order
Ascii == " +-.0123456789ABCDEFGHIJKLMNOPQRSTUVWXYZ_abcdefghijklmnopqrstuvwxyz"
Upper == "ABCDEFGHIJKLMNOPQRSTUVWXYZ"
Lower == "abcdefghijklmnopqrstuvwxyz"
Digits == "0123456789"

CharAt(s, i) == SubSeq(s, i, i)
Rest(s) == SubSeq(s, 2, Len(s))
\* the position of each character of an alphabet in it
Positions(alphabet) ==
    [c \in {CharAt(alphabet, i) : i \in 1..Len(alphabet)} |->
        CHOOSE i \in 1..Len(alphabet) : CharAt(alphabet, i) = c]
AsciiPositions == Positions(Ascii)
UpperPositions == Positions(Upper)
DigitPositions == Positions(Digits)
IndexIn(positions, c) == IF c \in DOMAIN positions THEN positions[c] ELSE 0

\* ord(c), up to an order-preserving renumbering
Ord(c) == IndexIn(AsciiPositions, c)

\* str.lower()
RECURSIVE lower(_)
lower(s) ==
    IF s = "" THEN ""
    ELSE LET c == CharAt(s, 1)
             u == IndexIn(UpperPositions, c)
         IN (IF u = 0 THEN c ELSE CharAt(Lower, u)) \o lower(Rest(s))

\* str.startswith(prefix)
startswith(s, prefix) ==
    Len(s) >= Len(prefix) /\ SubSeq(s, 1, Len(prefix)) = prefix

\* a < b on str: lexicographic by code point
RECURSIVE StrLess(_, _)
StrLess(a, b) ==
    IF b = "" THEN FALSE
    ELSE IF a = "" THEN TRUE
    ELSE IF CharAt(a, 1) = CharAt(b, 1) THEN StrLess(Rest(a), Rest(b))
    ELSE Ord(CharAt(a, 1)) < Ord(CharAt(b, 1))

\* needle in haystack, on str
Substring(needle, haystack) ==
    \E i \in 1..(Len(haystack) - Len(needle) + 1) :
        SubSeq(haystack, i, i + Len(needle) - 1) = needle

\* str.strip(), for the blank the alphabet has
RECURSIVE strip(_)
strip(s) ==
    IF s = "" THEN ""
    ELSE IF CharAt(s, 1) = " " THEN strip(Rest(s))
    ELSE IF CharAt(s, Len(s)) = " " THEN strip(SubSeq(s, 1, Len(s) - 1))
    ELSE s

\* s.split(sep): the pieces of s between the occurrences of sep, found from
\* the left
RECURSIVE Split(_, _)
Split(s, sep) ==
    LET hits == {i \in 1..(Len(s) - Len(sep) + 1) : SubSeq(s, i, i + Len(sep) - 1) = sep}
    IN IF hits = {} THEN <<s>>
       ELSE LET first == CHOOSE i \in hits : \A j \in hits : i <= j
            IN <<SubSeq(s, 1, first - 1)>>
               \o Split(SubSeq(s, first + Len(sep), Len(s)), sep)

---------------------------------------------------------------------------
(* Python numbers and int().                                               *)

Ok(v) == [ok |-> TRUE, v |-> v]
Raise(e) == [ok |-> FALSE, exc |-> e]

PyInt(n) == [t |-> "int", n |-> n]
PyStr(s) == [t |-> "str", s |-> s]
\* a finite float num/den, and the three that are not finite
PyFloat(num, den) == [t |-> "float", kind |-> "finite", num |-> num, den |-> den]
PyNan == [t |-> "float", kind |-> "nan", num |-> 0, den |-> 1]
PyInf == [t |-> "float", kind |-> "inf", num |-> 1, den |-> 1]
PyNegInf == [t |-> "float", kind |-> "inf", num |-> -1, den |-> 1]

\* the digits of an integer literal after its sign: groups of digits, single
\* underscores between them; acc is the value so far, prev the last character
RECURSIVE DigitsValue(_, _, _)
DigitsValue(s, acc, prev) ==
    IF s = "" THEN (IF prev = "d" THEN Ok(acc) ELSE Raise("ValueError"))
    ELSE LET c == CharAt(s, 1)
             d == IndexIn(DigitPositions, c)
         IN IF d > 0 THEN DigitsValue(Rest(s), 10 * acc + (d - 1), "d")
            ELSE IF c = "_" /\ prev = "d" THEN DigitsValue(Rest(s), acc, "_")
            ELSE Raise("ValueError")

\* int(s) for a str
IntOfStr(s) ==
    LET body == strip(s)
        sign == IF body # "" /\ CharAt(body, 1) = "-" THEN -1 ELSE 1
        digs == IF body # "" /\ CharAt(body, 1) \in {"+", "-"} THEN Rest(body) ELSE body
        val  == DigitsValue(digs, 0, "")
    IN IF val.ok THEN Ok(sign * val.v) ELSE val

\* int(x) for a float: truncation toward zero; nan and the infinities raise
IntOfFloat(f) ==
    IF f.kind = "nan" THEN Raise("ValueError")
    ELSE IF f.kind = "inf" THEN Raise("OverflowError")
    ELSE IF f.num >= 0 THEN Ok(f.num \div f.den) ELSE Ok(-((-f.num) \div f.den))

\* int(x)
int(x) ==
    CASE x.t = "int" -> Ok(x.n)
      [] x.t = "str" -> IntOfStr(x.s)
      [] x.t = "float" -> IntOfFloat(x)
      [] OTHER -> Raise("TypeError")

---------------------------------------------------------------------------
(* The release catalog.                                                    *)

postReleasePrefix == "post-"
legacyReleaseName == "legacy"
unknownReleaseName == "unknown"

\* the dict literal of __init__, as its items() in insertion order
releases_revisionsDates_literal == <<
    <<"4.0.0", <<"18777", "2011-11-27">> >>,
    <<"4.0.1", <<"19033", "2012-01-06">> >>,
    <<"4.1.0", <<"19886", "2012-04-12">> >>,
    <<"4.1.1", <<"20313", "2012-06-01">> >>,
    <<"4.2.0", <<"21298", "2012-10-31">> >>,
    <<"4.2.1", <<"21438", "2012-11-16">> >>,
    <<"4.2.2", <<"21508", "2012-12-07">> >>,
    <<"4.2.2-1", <<"21513", "2012-12-08">> >>,
    <<"4.3.0", <<"22408", "2013-09-04">> >>,
    <<"4.3.1", <<"22599", "2013-10-04">> >>,
    <<"4.3.1-1", <<"22704", "2013-11-14">> >>,
    <<"4.4.0", <<"23774", "2014-11-02">> >>,
    <<"4.5.0-1", <<"24735", "2015-11-12">> >>,
    <<"4.6.0", <<"25441", "2016-10-13">> >>,
    <<"4.6.2", <<"25516", "2016-11-08">> >>,
    <<"4.8.0", <<"26489", "2017-10-18">> >>,
    <<"4.8.1", <<"26813", "2017-12-19">> >>,
    <<"4.10.0", <<"27510", "2018-10-17">> >>,
    <<"4.10.1", <<"27931", "2019-01-15">> >>,
    <<"4.10.2", <<"28257", "2019-05-16">> >>,
    <<"4.11.20200930", <<"29402", "2020-09-30">> >>,
    <<"4.11.20210226", <<"29738", "2021-02-26">> >>,
    <<"5.0.2", <<"30822", "2022-05-06">> >>,
    <<"5.0.3", <<"30893", "2022-07-08">> >>,
    <<"5.2.1", <<"31317", "2022-11-24">> >>,
    <<"5.2.2", <<"31382", "2023-02-21">> >>,
    <<"5.4.0", <<"31938", "2023-08-19">> >>,
    <<"5.6.0", <<"32390", "2023-11-16">> >>,
    <<"5.6.1", <<"32438", "2023-12-12">> >>,
    <<"5.6.2", <<"32448", "2024-04-05">> >>,
    <<"5.8.0", <<"33216", "2025-01-24">> >>,
    <<"5.8.1", <<"33241", "2025-03-02">> >>,
    <<"5.10.0", <<"34045", "2025-11-10">> >> >>

\* the comparison as reverse=True would make it
KeyGreater(a, b) ==
    \/ StrLess(b[1], a[1])
    \/ a[1] = b[1] /\ StrLess(b[2], a[2])

\* a < b on the sort key t[1], a list [revision, date] of two str
KeyLess(a, b) ==
    \/ StrLess(a[1], b[1])
    \/ a[1] = b[1] /\ StrLess(a[2], b[2])

\* sorted(items, key=lambda t: t[1]): a stable insertion of each item
RECURSIVE InsertByKey(_, _)
InsertByKey(sorted, item) ==
    IF sorted = <<>> THEN <<item>>
    ELSE IF KeyLess(item[2], sorted[Len(sorted)][2])
         THEN Append(InsertByKey(SubSeq(sorted, 1, Len(sorted) - 1), item),
                     sorted[Len(sorted)])
         ELSE Append(sorted, item)

RECURSIVE SortedByKey(_)
SortedByKey(items) ==
    IF items = <<>> THEN <<>>
    ELSE InsertByKey(SortedByKey(SubSeq(items, 1, Len(items) - 1)), items[Len(items)])

\* self.releases_revisionsDates
releases_revisionsDates == SortedByKey(releases_revisionsDates_literal)

\* int(release_revisionDate[1][0]) of the i-th entry of the sorted catalog,
\* evaluated once; the literal's revisions are all digits
releaseRevisions ==
    [i \in 1..Len(releases_revisionsDates) |-> IntOfStr(releases_revisionsDates[i][2][1]).v]

\* the loop of getSlicerReleaseNames over the catalog, from entry i on
RECURSIVE AppendReleases(_, _, _)
AppendReleases(releases, revisionsDates, i) ==
    IF i > Len(revisionsDates) THEN releases
    ELSE LET releaseRevision == revisionsDates[i]
         IN AppendReleases(
                releases \o <<releaseRevision[1], postReleasePrefix \o releaseRevision[1]>>,
                revisionsDates, i + 1)

\* the list as a slip would build it: the releases without their post- labels
ReleaseNamesWithoutPost(revisionsDates) ==
    <<unknownReleaseName, legacyReleaseName>>
    \o [i \in 1..Len(revisionsDates) |-> revisionsDates[i][1]]

\* getSlicerReleaseNames() of an instance whose catalog is revisionsDates
getSlicerReleaseNames(revisionsDates) ==
    AppendReleases(<<unknownReleaseName, legacyReleaseName>>, revisionsDates, 1)

---------------------------------------------------------------------------
(* The revision classifier.                                                *)

\* the loop with the break taken on <= : the exact match is never seen
RECURSIVE ScanReleasesBreakOnEqual(_, _, _)
ScanReleasesBreakOnEqual(rev, i, rel) ==
    IF i > Len(releases_revisionsDates) THEN rel
    ELSE LET release_revisionDate == releases_revisionsDates[i]
         IN IF rev <= releaseRevisions[i] THEN rel
            ELSE ScanReleasesBreakOnEqual(rev, i + 1,
                                          postReleasePrefix \o release_revisionDate[1])

\* the loop of getSlicerReleaseName from catalog entry i on
RECURSIVE ScanReleases(_, _, _)
ScanReleases(rev, i, rel) ==
    IF i > Len(releases_revisionsDates) THEN rel
    ELSE LET release_revisionDate == releases_revisionsDates[i]
         IN IF rev < releaseRevisions[i] THEN rel
            ELSE IF rev = releaseRevisions[i] THEN release_revisionDate[1]
            ELSE ScanReleases(rev, i + 1, postReleasePrefix \o release_revisionDate[1])

\* getSlicerReleaseName(revision): only ValueError is caught
getSlicerReleaseName(x) ==
    LET parsed == int(x)
    IN IF parsed.ok THEN Ok(ScanReleases(parsed.v, 1, legacyReleaseName))
       ELSE IF parsed.exc = "ValueError" THEN Ok(unknownReleaseName)
       ELSE parsed

---------------------------------------------------------------------------
(* JSON values, and what Python does with them.                            *)

None == [t |-> "null"]
JList(l) == [t |-> "list", l |-> l]
\* a JSON object; the order of its keys decides nothing the model reads
JMap(m) == [t |-> "map", m |-> m]
\* the stats document: a JSON object whose items are kept in document order,
\* a sequence of <<revision key, value>> with distinct keys
JDoc(items) == [t |-> "doc", items |-> items]

\* key not in v
NotIn(key, v) ==
    CASE v.t = "map" -> Ok(key \notin DOMAIN v.m)
      [] v.t = "list" -> Ok(\A i \in 1..Len(v.l) : v.l[i] # PyStr(key))
      [] v.t = "str" -> Ok(~Substring(key, v.s))
      [] OTHER -> Raise("TypeError")

\* v[key] for a str key
GetItem(v, key) ==
    CASE v.t = "map" -> (IF key \in DOMAIN v.m THEN Ok(v.m[key]) ELSE Raise("KeyError"))
      [] OTHER -> Raise("TypeError")

\* iter(v): the keys of an object, the str elements of a list, the
\* characters of a str
Iterate(v) ==
    CASE v.t = "map" -> Ok(DOMAIN v.m)
      [] v.t = "list" -> Ok({v.l[i].s : i \in {j \in 1..Len(v.l) : v.l[j].t = "str"}})
      [] v.t = "str" -> Ok({CharAt(v.s, i) : i \in 1..Len(v.s)})
      [] OTHER -> Raise("TypeError")

\* count + x for an int count
Add(count, x) == IF x.t = "int" THEN Ok(count + x.n) ELSE Raise("TypeError")

\* bool(extensionNames): None and the empty list are falsy
Truthy(names) == names.t = "list" /\ names.l # <<>>

---------------------------------------------------------------------------
(* The download aggregator.                                                *)

platforms == <<"win", "macosx", "linux">>
architectures == <<"amd64", "arm64">>

\* downloadCount += extensions[extensionName][platform][arch], inside
\* try/except (KeyError, TypeError): pass
AddCell(downloadCount, extensions, extensionName, platform, arch) ==
    LET ext == GetItem(extensions, extensionName)
        plat == IF ext.ok THEN GetItem(ext.v, platform) ELSE ext
        cell == IF plat.ok THEN GetItem(plat.v, arch) ELSE plat
        sum == IF cell.ok THEN Add(downloadCount, cell.v) ELSE cell
    IN IF sum.ok THEN sum.v ELSE downloadCount

\* the loops as a slip would write them: the first architecture only
RECURSIVE SumCellsOneArchitecture(_, _, _, _)
SumCellsOneArchitecture(downloadCount, extensions, extensionName, k) ==
    IF k > Len(platforms) THEN downloadCount
    ELSE SumCellsOneArchitecture(
             AddCell(downloadCount, extensions, extensionName, platforms[k],
                     architectures[1]),
             extensions, extensionName, k + 1)

\* the two nested loops over platforms and architectures, from cell k on
RECURSIVE SumCells(_, _, _, _)
SumCells(downloadCount, extensions, extensionName, k) ==
    IF k > Len(platforms) * Len(architectures) THEN downloadCount
    ELSE LET platform == platforms[((k - 1) \div Len(architectures)) + 1]
             arch == architectures[((k - 1) % Len(architectures)) + 1]
         IN SumCells(AddCell(downloadCount, extensions, extensionName, platform, arch),
                     extensions, extensionName, k + 1)

\* the accumulation as a slip would write it: assigned, not added
SetDownloads(downloads, extensionName, rel, downloadCount) ==
    LET row == IF extensionName \in DOMAIN downloads THEN downloads[extensionName] ELSE <<>>
    IN (extensionName :> ((rel :> downloadCount) @@ row)) @@ downloads

\* extension_release_downloads[extensionName][release] += downloadCount,
\* after both entries are initialised if absent
AddDownloads(downloads, extensionName, rel, downloadCount) ==
    LET row == IF extensionName \in DOMAIN downloads THEN downloads[extensionName] ELSE <<>>
        old == IF rel \in DOMAIN row THEN row[rel] ELSE 0
    IN (extensionName :> ((rel :> (old + downloadCount)) @@ row)) @@ downloads

\* if extensionNames and (extensionName not in extensionNames): continue
Skipped(names, extensionName) ==
    Truthy(names) /\ \A i \in 1..Len(names.l) : names.l[i] # extensionName

\* the body of the loop over the extensions of one revision, for the
\* extension names still to do
RECURSIVE ExtensionLoop(_, _, _, _, _)
ExtensionLoop(downloads, extensions, todo, rel, names) ==
    IF todo = {} THEN downloads
    ELSE LET extensionName == CHOOSE e \in todo : TRUE
             downloadCount == SumCells(0, extensions, extensionName, 1)
             next == IF Skipped(names, extensionName) \/ downloadCount = 0
                     THEN downloads
                     ELSE AddDownloads(downloads, extensionName, rel, downloadCount)
         IN ExtensionLoop(next, extensions, todo \ {extensionName}, rel, names)

\* the loop over the first n revisions of the document; it ends with the
\* table, or with the exception that leaves it
RECURSIVE RevisionLoop(_, _, _)
RevisionLoop(items, n, names) ==
    IF n = 0 THEN Ok(<<>>)
    ELSE LET before == RevisionLoop(items, n - 1, names)
             rel == getSlicerReleaseName(PyStr(items[n][1]))
             value == items[n][2]
             absent == NotIn("extensions", value)
             extensions == GetItem(value, "extensions")
             keys == Iterate(extensions.v)
         IN IF ~before.ok THEN before
            ELSE IF ~rel.ok THEN rel
            ELSE IF ~absent.ok THEN absent
            ELSE IF absent.v THEN before
            ELSE IF ~extensions.ok THEN extensions
            ELSE IF ~keys.ok THEN keys
            ELSE Ok(ExtensionLoop(before.v, extensions.v, keys.v, rel.v, names))

\* for revision in self.downloadstats: ...; return extension_release_downloads
Aggregate(stats, names) ==
    IF stats.t = "doc" THEN RevisionLoop(stats.items, Len(stats.items), names)
    ELSE IF stats.t = "list" /\ stats.l = <<>> THEN Ok(<<>>)
    ELSE Raise("TypeError")

\* the fetch as a slip would write it: the body is stored before the status
\* is looked at
FetchStoringFirst(resp) ==
    IF resp.kind = "network_error" THEN [stats |-> None, failed |-> TRUE]
    ELSE IF resp.kind = "bad_body" THEN [stats |-> None, failed |-> TRUE]
    ELSE IF resp.kind = "http_error" THEN [stats |-> resp.body, failed |-> TRUE]
    ELSE [stats |-> resp.body, failed |-> resp.body.t \in {"null", "int"}]

\* the try block of getExtensionDownloadStats: requests.get, raise_for_status,
\* self.downloadstats = resp.json(), len(self.downloadstats); failed when
\* one of them raised (len() raises on null and on a number), which
\* except Exception catches
Fetch(resp) ==
    IF resp.kind \in {"network_error", "http_error", "bad_body"}
    THEN [stats |-> None, failed |-> TRUE]
    ELSE [stats |-> resp.body, failed |-> resp.body.t \in {"null", "int"}]

\* getExtensionDownloadStats(extensionNames) on an instance whose
\* downloadstats is stats, the server answering resp when it is asked
getExtensionDownloadStats(stats, names, resp) ==
    LET fetched == IF stats = None THEN Fetch(resp) ELSE [stats |-> stats, failed |-> FALSE]
        result == IF fetched.failed THEN Ok(<<>>) ELSE Aggregate(fetched.stats, names)
    IN [stats |-> fetched.stats,
        requested |-> (stats = None),
        failed |-> fetched.failed,
        table |-> IF result.ok THEN result.v ELSE <<>>,
        raised |-> IF result.ok THEN "none" ELSE result.exc]

\* sorted(list(d.keys())), from the smallest name on
RECURSIVE SortedNames(_)
SortedNames(names) ==
    IF names = {} THEN <<>>
    ELSE LET least == CHOOSE a \in names : \A b \in names \ {a} : StrLess(a, b)
         IN <<least>> \o SortedNames(names \ {least})

---------------------------------------------------------------------------
(* The name resolver of collect_extension_stats.py.                        *)

SLICER_EXTENSION_MAP ==
    ("SlicerMorph" :> "SlicerMorph")
    @@ ("DeCA" :> "DenseCorrespondenceAnalysis")
    @@ ("Photogrammetry" :> "Photogrammetry")
    @@ ("MEMOs" :> "SlicerMEMOs")
    @@ ("ANTsPy" :> "SlicerANTsPy")
    @@ ("MorphoDepot" :> "MorphoDepot")
    @@ ("ScriptEditor" :> "ScriptEditor")

\* the display names the loop skips
NonExtensions == {"101_Course", "102_Course", "Tutorials", "MCI"}

\* extension_lookup = {ext.lower(): ext for ext in all_extensions}: of the
\* names with one lower-case form, the last of the list stays
extension_lookup(all_extensions) ==
    [key \in {lower(all_extensions[i]) : i \in 1..Len(all_extensions)} |->
        all_extensions[CHOOSE i \in 1..Len(all_extensions) :
            /\ lower(all_extensions[i]) = key
            /\ \A j \in 1..Len(all_extensions) :
                   lower(all_extensions[j]) = key => j <= i]]

\* the look-up of one candidate name: the names to append
Found(lookup, search_name) ==
    IF lower(search_name) \in DOMAIN lookup THEN <<lookup[lower(search_name)]>> ELSE <<>>

\* the four attempts as a slip would order them: the display name first
MatchDisplayNameFirst(repo, lookup) ==
    LET display_name == repo.display_name
        repo_name == repo.name
        second == IF display_name \in DOMAIN SLICER_EXTENSION_MAP
                  THEN Found(lookup, SLICER_EXTENSION_MAP[display_name]) ELSE <<>>
        first == Found(lookup, display_name)
        third == Found(lookup, repo_name)
        fourth == IF startswith(repo_name, "Slicer")
                  THEN Found(lookup, SubSeq(repo_name, 7, Len(repo_name))) ELSE <<>>
    IN IF first # <<>> THEN first
       ELSE IF second # <<>> THEN second
       ELSE IF third # <<>> THEN third
       ELSE fourth

\* the four attempts of one iteration, each made only if not matched yet:
\* the names the iteration appends
Match(repo, lookup) ==
    LET display_name == repo.display_name
        repo_name == repo.name
        first == IF display_name \in DOMAIN SLICER_EXTENSION_MAP
                 THEN Found(lookup, SLICER_EXTENSION_MAP[display_name]) ELSE <<>>
        second == Found(lookup, display_name)
        third == Found(lookup, repo_name)
        fourth == IF startswith(repo_name, "Slicer")
                  THEN Found(lookup, SubSeq(repo_name, 7, Len(repo_name))) ELSE <<>>
    IN IF first # <<>> THEN first
       ELSE IF second # <<>> THEN second
       ELSE IF third # <<>> THEN third
       ELSE fourth

\* one iteration of the loop over repos_data['repositories']
IdentifyStep(names, repo, all_extensions) ==
    IF repo.display_name \in NonExtensions THEN names
    ELSE names \o Match(repo, extension_lookup(all_extensions))

\* the loop of identify_slicer_extensions over the first n repositories
RECURSIVE IdentifyLoop(_, _, _)
IdentifyLoop(repositories, n, all_extensions) ==
    IF n = 0 THEN <<>>
    ELSE IdentifyStep(IdentifyLoop(repositories, n - 1, all_extensions),
                      repositories[n], all_extensions)

---------------------------------------------------------------------------
(* The CSV file of create_summary_table and of the collector's main.       *)

\* the decimal digits of n >= 0
RECURSIVE DecimalDigits(_)
DecimalDigits(n) ==
    IF n < 10 THEN CharAt(Digits, n + 1)
    ELSE DecimalDigits(n \div 10) \o CharAt(Digits, (n % 10) + 1)

\* str(n) of an int: what csv.writer writes for a count
str(n) == IF n < 0 THEN "-" \o DecimalDigits(-n) ELSE DecimalDigits(n)

\* release_downloads.get(release, 0)
Get(release_downloads, rel) ==
    IF rel \in DOMAIN release_downloads THEN release_downloads[rel] ELSE 0

\* the row as a slip would write it: the cells the extension has, no 0 filled in
CsvRowOfStoredCells(extensionName, release_downloads, releases) ==
    <<extensionName>>
    \o [k \in 1..Cardinality(DOMAIN release_downloads) |->
           str(release_downloads[releases[
               CHOOSE i \in 1..Len(releases) :
                   /\ releases[i] \in DOMAIN release_downloads
                   /\ Cardinality({j \in 1..i : releases[j] \in DOMAIN release_downloads}) = k]])]

\* row = [extensionName], then one cell per release of the header
CsvRow(extensionName, release_downloads, releases) ==
    <<extensionName>>
    \o [i \in 1..Len(releases) |-> str(Get(release_downloads, releases[i]))]

\* the loop over extension_names from position i on: the rows written
RECURSIVE WriteRows(_, _, _, _, _)
WriteRows(rows, names, i, extension_release_downloads, releases) ==
    IF i > Len(names) THEN rows
    ELSE LET extensionName == names[i]
         IN IF extensionName \notin DOMAIN extension_release_downloads
            THEN WriteRows(rows, names, i + 1, extension_release_downloads, releases)
            ELSE WriteRows(
                     Append(rows, CsvRow(extensionName,
                                         extension_release_downloads[extensionName],
                                         releases)),
                     names, i + 1, extension_release_downloads, releases)

\* the rows of the file: the header, then the rows of the loop.  A row is the
\* list of its fields; the quoting of csv.writer, which csv.reader undoes, is
\* left out.
WriteCsv(names, extension_release_downloads, releases) ==
    WriteRows(<< <<"Extension Name">> \o releases >>, names, 1,
              extension_release_downloads, releases)

---------------------------------------------------------------------------
(* create_markdown_table of collect_extension_stats.py.                    *)

\* s.isdigit()
isdigit(s) == s # "" /\ \A i \in 1..Len(s) : CharAt(s, i) \in DOMAIN DigitPositions

\* the digits of a number with a comma before each group of three
RECURSIVE GroupThousands(_)
GroupThousands(digits) ==
    IF Len(digits) <= 3 THEN digits
    ELSE GroupThousands(SubSeq(digits, 1, Len(digits) - 3))
         \o "," \o SubSeq(digits, Len(digits) - 2, Len(digits))

\* f"{n:,}" of an int
FormatThousands(n) ==
    IF n < 0 THEN "-" \o GroupThousands(DecimalDigits(-n))
    ELSE GroupThousands(DecimalDigits(n))

\* sep.join(list)
RECURSIVE join(_, _)
join(sep, list) ==
    IF list = <<>> THEN ""
    ELSE IF Len(list) = 1 THEN list[1]
    ELSE join(sep, SubSeq(list, 1, Len(list) - 1)) \o sep \o list[Len(list)]

\* sum(int(val) for val in row[1:] if val.isdigit()), over the first n cells
\* after the name
RECURSIVE RowTotal(_, _)
RowTotal(row, n) ==
    IF n = 0 THEN 0
    ELSE RowTotal(row, n - 1)
         + (IF isdigit(row[n + 1]) THEN IntOfStr(row[n + 1]).v ELSE 0)

\* the test as a slip would write it: the first data row only
HasNonZeroInFirstRow(data_rows, col_idx) ==
    col_idx <= Len(data_rows[1]) /\ data_rows[1][col_idx] # "0"

\* has_non_zero for the column at position col_idx: some row has a cell there
\* that is not '0'
has_non_zero(data_rows, col_idx) ==
    \E k \in 1..Len(data_rows) :
        col_idx <= Len(data_rows[k]) /\ data_rows[k][col_idx] # "0"

\* non_zero_columns: the first column, then the columns with a cell that is
\* not '0', as positions from 1
non_zero_columns(header, data_rows) ==
    <<1>> \o SelectSeq([i \in 1..(Len(header) - 1) |-> i + 1],
                       LAMBDA col_idx : has_non_zero(data_rows, col_idx))

\* the cell of a row in a visible column
MarkdownValue(row, col_idx) ==
    IF col_idx <= Len(row)
    THEN LET val == row[col_idx]
         IN IF isdigit(val) /\ IntOfStr(val).v > 0
            THEN FormatThousands(IntOfStr(val).v) ELSE val
    ELSE "0"

\* create_markdown_table(csv_file) for a file that holds rows
create_markdown_table(rows) ==
    IF Len(rows) < 2 THEN "No extension statistics available.\n"
    ELSE LET header == rows[1]
             data_rows == SubSeq(rows, 2, Len(rows))
             row_totals == [idx \in 1..Len(data_rows) |->
                               RowTotal(data_rows[idx], Len(data_rows[idx]) - 1)]
             columns == Tail(non_zero_columns(header, data_rows))
             header_row == <<header[1], "Total Downloads">>
                           \o [k \in 1..Len(columns) |-> header[columns[k]]]
             values(idx) ==
                 <<data_rows[idx][1], FormatThousands(row_totals[idx])>>
                 \o [k \in 1..Len(columns) |-> MarkdownValue(data_rows[idx], columns[k])]
             md_lines ==
                 <<"| " \o join(" | ", header_row) \o " |",
                   "|" \o join("|", [k \in 1..Len(header_row) |-> "---"]) \o "|">>
                 \o [idx \in 1..Len(data_rows) |-> "| " \o join(" | ", values(idx)) \o " |"]
         IN join("\n", md_lines) \o "\n"

---------------------------------------------------------------------------
(* The console summary of create_summary_table.                            *)

\* the number of releases the breakdown shows per extension
TopReleases == 10

\* sum(release_downloads.values())
RECURSIVE SumValues(_, _)
SumValues(release_downloads, keys) ==
    IF keys = {} THEN 0
    ELSE LET k == CHOOSE x \in keys : TRUE
         IN release_downloads[k] + SumValues(release_downloads, keys \ {k})

\* the keys of extension_release_downloads[extensionName] in the order the
\* loop over the first n revisions of the document inserted them
RECURSIVE InsertedReleases(_, _, _)
InsertedReleases(items, n, extensionName) ==
    IF n = 0 THEN <<>>
    ELSE LET before == InsertedReleases(items, n - 1, extensionName)
             rel == getSlicerReleaseName(PyStr(items[n][1])).v
             extensions == GetItem(items[n][2], "extensions")
             added == /\ extensions.ok
                      /\ extensions.v.t = "map"
                      /\ extensionName \in DOMAIN extensions.v.m
                      /\ SumCells(0, extensions.v, extensionName, 1) # 0
         IN IF added /\ \A k \in 1..Len(before) : before[k] # rel
            THEN Append(before, rel) ELSE before

\* release_downloads.items() of an extension of the table aggregated from the
\* document stats
Items(stats, release_downloads, extensionName) ==
    LET keys == InsertedReleases(stats.items, Len(stats.items), extensionName)
    IN [k \in 1..Len(keys) |-> <<keys[k], release_downloads[keys[k]]>>]

\* the sort as a slip would leave it out
Unsorted(items) == items

\* sorted(items, key=lambda x: x[1], reverse=True): the sort is stable, equal
\* counts keep the order of the list
RECURSIVE InsertByCount(_, _)
InsertByCount(sorted, item) ==
    IF sorted = <<>> THEN <<item>>
    ELSE IF sorted[Len(sorted)][2] < item[2]
         THEN Append(InsertByCount(SubSeq(sorted, 1, Len(sorted) - 1), item),
                     sorted[Len(sorted)])
         ELSE Append(sorted, item)

RECURSIVE SortedByCount(_)
SortedByCount(items) ==
    IF items = <<>> THEN <<>>
    ELSE InsertByCount(SortedByCount(SubSeq(items, 1, Len(items) - 1)), items[Len(items)])

\* the first loop over extension_names: a line with the total per extension,
\* a warning for one the table has no entry for.  A line is the list of the
\* fields its f-string prints; the padding is left out.
RECURSIVE TotalLines(_, _, _)
TotalLines(names, n, extension_release_downloads) ==
    IF n = 0 THEN <<>>
    ELSE LET extensionName == names[n]
             before == TotalLines(names, n - 1, extension_release_downloads)
         IN IF extensionName \notin DOMAIN extension_release_downloads
            THEN Append(before, <<"warning", extensionName>>)
            ELSE LET release_downloads == extension_release_downloads[extensionName]
                     total == SumValues(release_downloads, DOMAIN release_downloads)
                 IN Append(before, <<"total", extensionName, FormatThousands(total)>>)

\* for release, count in sorted_releases[:10]: if count > 0: print(...)
ReleaseLines(sorted_releases) ==
    LET top == SubSeq(sorted_releases, 1,
                      IF Len(sorted_releases) < TopReleases
                      THEN Len(sorted_releases) ELSE TopReleases)
        shown == SelectSeq(top, LAMBDA item : item[2] > 0)
    IN [k \in 1..Len(shown) |-> <<"release", shown[k][1], FormatThousands(shown[k][2])>>]

\* the second loop over extension_names: the detailed breakdown
RECURSIVE BreakdownLines(_, _, _, _)
BreakdownLines(names, n, extension_release_downloads, stats) ==
    IF n = 0 THEN <<>>
    ELSE LET extensionName == names[n]
             before == BreakdownLines(names, n - 1, extension_release_downloads, stats)
         IN IF extensionName \notin DOMAIN extension_release_downloads THEN before
            ELSE before
                 \o << <<"extension", extensionName>> >>
                 \o ReleaseLines(SortedByCount(
                        Items(stats, extension_release_downloads[extensionName],
                              extensionName)))

\* the lines the console branch prints for the table aggregated from stats
ConsoleSummary(names, extension_release_downloads, stats) ==
    TotalLines(names, Len(names), extension_release_downloads)
    \o BreakdownLines(names, Len(names), extension_release_downloads, stats)

---------------------------------------------------------------------------
(* parse_concatenated_json of plot_stats.py.                               *)

\* the character of s at position i, "" past its end
At(s, i) == IF i <= Len(s) THEN CharAt(s, i) ELSE ""

\* json.loads reads the JSON of the generated files: objects, arrays, strings
\* without escapes, integers, no white space.  A value read at position i is
\* [ok |-> TRUE, v |-> value, next |-> position after it].
Parsed(v, next) == [ok |-> TRUE, v |-> v, next |-> next]

\* a string, s[i] being its opening quote
ParseString(s, i) ==
    LET closing == {j \in (i + 1)..Len(s) : CharAt(s, j) = "\""}
    IN IF closing = {} THEN Raise("JSONDecodeError")
       ELSE LET j == CHOOSE x \in closing : \A y \in closing : x <= y
            IN Parsed(PyStr(SubSeq(s, i + 1, j - 1)), j + 1)

\* an integer: -?(0|[1-9][0-9]*)
ParseNumber(s, i) ==
    LET start == IF At(s, i) = "-" THEN i + 1 ELSE i
        others == {j \in start..Len(s) : CharAt(s, j) \notin DOMAIN DigitPositions}
        end == IF others = {} THEN Len(s)
               ELSE (CHOOSE x \in others : \A y \in others : x <= y) - 1
        sign == IF start = i THEN 1 ELSE -1
    IN IF end < start THEN Raise("JSONDecodeError")
       ELSE IF CharAt(s, start) = "0" THEN Parsed(PyInt(0), start + 1)
       ELSE Parsed(PyInt(sign * DigitsValue(SubSeq(s, start, end), 0, "").v), end + 1)

RECURSIVE ParseValue(_, _)
RECURSIVE ParseElements(_, _, _)
RECURSIVE ParseMembers(_, _, _)

\* the elements of an array from position i on, acc being those read
ParseElements(s, i, acc) ==
    LET element == ParseValue(s, i)
    IN IF ~element.ok THEN element
       ELSE IF At(s, element.next) = ","
            THEN ParseElements(s, element.next + 1, Append(acc, element.v))
       ELSE IF At(s, element.next) = "]"
            THEN Parsed(JList(Append(acc, element.v)), element.next + 1)
       ELSE Raise("JSONDecodeError")

\* the members of an object from position i on, acc being those read; the
\* object is kept as its items in document order
ParseMembers(s, i, acc) ==
    IF At(s, i) # "\"" THEN Raise("JSONDecodeError")
    ELSE LET key == ParseString(s, i)
         IN IF ~key.ok THEN key
            ELSE IF At(s, key.next) # ":" THEN Raise("JSONDecodeError")
            ELSE LET value == ParseValue(s, key.next + 1)
                 IN IF ~value.ok THEN value
                    ELSE IF At(s, value.next) = ","
                         THEN ParseMembers(s, value.next + 1,
                                           Append(acc, <<key.v.s, value.v>>))
                    ELSE IF At(s, value.next) = "}"
                         THEN Parsed(JDoc(Append(acc, <<key.v.s, value.v>>)),
                                     value.next + 1)
                    ELSE Raise("JSONDecodeError")

\* the value that starts at position i
ParseValue(s, i) ==
    LET c == At(s, i)
    IN IF c = "{"
       THEN (IF At(s, i + 1) = "}" THEN Parsed(JDoc(<<>>), i + 2)
             ELSE ParseMembers(s, i + 1, <<>>))
       ELSE IF c = "["
       THEN (IF At(s, i + 1) = "]" THEN Parsed(JList(<<>>), i + 2)
             ELSE ParseElements(s, i + 1, <<>>))
       ELSE IF c = "\"" THEN ParseString(s, i)
       ELSE IF c = "-" \/ c \in DOMAIN DigitPositions THEN ParseNumber(s, i)
       ELSE Raise("JSONDecodeError")

\* json.loads(s): one value and nothing after it
json_loads(s) ==
    LET value == ParseValue(s, 1)
    IN IF ~value.ok THEN value
       ELSE IF value.next # Len(s) + 1 THEN Raise("JSONDecodeError")
       ELSE Ok(value.v)

\* key in v, for a parsed value
In(key, v) ==
    IF v.t = "doc" THEN Ok(\E k \in 1..Len(v.items) : v.items[k][1] = key)
    ELSE LET absent == NotIn(key, v)
         IN IF absent.ok THEN Ok(~absent.v) ELSE absent

\* data_obj[key] of a parsed object that has the key: of the items with the
\* key, the last of the document
Member(data_obj, key) ==
    data_obj.items[CHOOSE k \in 1..Len(data_obj.items) :
                      /\ data_obj.items[k][1] = key
                      /\ \A j \in 1..Len(data_obj.items) :
                            data_obj.items[j][1] = key => j <= k][2]

\* all_views.extend(x): the elements of a list are appended; a number or null
\* is not iterable
extend(views, x) ==
    IF x.t = "list" THEN Ok(views \o x.l)
    ELSE IF x.t = "str" THEN Ok(views \o [i \in 1..Len(x.s) |-> PyStr(CharAt(x.s, i))])
    ELSE IF x.t = "doc" THEN Ok(views \o [i \in 1..Len(x.items) |-> PyStr(x.items[i][1])])
    ELSE Raise("TypeError")

\* reconstructed: the tests are made in the order i == 0, i == len - 1, else
reconstructed(json_objects) ==
    [i \in 1..Len(json_objects) |->
        IF i = 1 THEN json_objects[i] \o "}"
        ELSE IF i = Len(json_objects) THEN "{" \o json_objects[i]
        ELSE "{" \o json_objects[i] \o "}"]

\* the loop over the first n reconstructed texts: all_views, or the exception
\* that leaves the loop; only JSONDecodeError is caught
RECURSIVE ViewsLoop(_, _)
ViewsLoop(texts, n) ==
    IF n = 0 THEN Ok(<<>>)
    ELSE LET before == ViewsLoop(texts, n - 1)
             data_obj == json_loads(texts[n])
             has == In("views", data_obj.v)
         IN IF ~before.ok THEN before
            ELSE IF ~data_obj.ok THEN before
            ELSE IF ~has.ok THEN has
            ELSE IF has.v THEN extend(before.v, Member(data_obj.v, "views"))
            ELSE before

\* parse_concatenated_json up to all_views; the data frame pandas makes of
\* it is left out
parse_concatenated_json(text) ==
    LET json_objects == Split(text, "}{")
        texts == reconstructed(json_objects)
    IN ViewsLoop(texts, Len(texts))

---------------------------------------------------------------------------
(* Values of the variables a specification does not use.                   *)

ClassifyIdle == revision = None /\ release = ""
LogicIdle ==
    /\ server = None
    /\ downloadstats = <<>>
    /\ extensionNames = None
    /\ response = "none"
    /\ table = <<>>
RunIdle ==
    /\ requests = 0
    /\ entry = "none"
    /\ exitCode = -1
    /\ report = FALSE
    /\ failedFetch = FALSE
ResolveIdle ==
    /\ known = <<>>
    /\ repos = <<>>
    /\ repoIdx = 0
    /\ extension_names = <<>>
CatalogIdle == catalog = <<>> /\ releaseNames = <<>>
ReportIdle ==
    /\ output = "none"
    /\ csv = <<>>
    /\ console = <<>>
    /\ markdown = ""
TrafficIdle == json_text = "" /\ all_views = <<>>

---------------------------------------------------------------------------
(* Calls of getSlicerReleaseName.                                          *)

\* the catalog of the source text, read as a set of <<name, revision>>
CatalogEntries ==
    {<<releases_revisionsDates_literal[i][1],
       IntOfStr(releases_revisionsDates_literal[i][2][1]).v>> :
        i \in 1..Len(releases_revisionsDates_literal)}
CatalogRevisions == {e[2] : e \in CatalogEntries}

\* the arguments the calls are made with: integers at and around every
\* catalog revision, the revision strings a stats document has as keys,
\* strings that are and are not integer literals, and floats
IntInputs ==
    {PyInt(r + d) : r \in CatalogRevisions, d \in {-1, 0, 1}}
        \cup {PyInt(0), PyInt(-1)}
StrInputs ==
    {PyStr(releases_revisionsDates_literal[i][2][1]) :
        i \in 1..Len(releases_revisionsDates_literal)}
        \cup {PyStr(s) : s \in {"18776", "18778", "34046", " 18777 ", "+18777", "-5",
                                "18_777", "abc", "", " ", "1e5", "3.7", "0x10",
                                "1_", "_1", "--1", "1 2", "4.0.0", "unknown"}}
FloatInputs ==
    {PyFloat(18777, 1), PyFloat(37555, 2), PyFloat(-1, 2), PyFloat(68091, 2),
     PyNan, PyInf, PyNegInf}
ClassifyInputs == IntInputs \cup StrInputs \cup FloatInputs

InitClassify ==
    /\ pc = "call"
    /\ raised = "none"
    /\ revision \in ClassifyInputs
    /\ release = ""
    /\ LogicIdle /\ RunIdle /\ ResolveIdle
    /\ CatalogIdle /\ ReportIdle /\ TrafficIdle

\* one call getSlicerReleaseName(revision)
Classify ==
    /\ pc = "call"
    /\ LET r == getSlicerReleaseName(revision)
       IN /\ release' = (IF r.ok THEN r.v ELSE "")
          /\ raised' = (IF r.ok THEN "none" ELSE r.exc)
    /\ pc' = "returned"
    /\ UNCHANGED <<revision, logicVars, runVars, resolveVars,
                   catalogVars, reportVars, trafficVars>>

NextClassify == Classify
SpecClassify == InitClassify /\ [][NextClassify]_vars

\* the label the catalog, read as a set of entries, gives an integer revision
ExpectedRelease(r) ==
    LET atOrBelow == {e \in CatalogEntries : e[2] <= r}
    IN IF \A e \in CatalogEntries : r < e[2] THEN "legacy"
       ELSE IF \E e \in CatalogEntries : e[2] = r
            THEN (CHOOSE e \in CatalogEntries : e[2] = r)[1]
            ELSE "post-" \o
                 (CHOOSE e \in atOrBelow : \A f \in atOrBelow : f[2] <= e[2])[1]

\* C1: for every integer revision r, getSlicerReleaseName(r) returns "legacy"
\* when r is below the smallest catalog revision, the entry's name when r is a
\* catalog revision, and otherwise "post-" + the name of the latest entry whose
\* revision is <= r.
C1_ClassifiesByCatalog ==
    (pc = "returned" /\ int(revision).ok) =>
        /\ raised = "none"
        /\ release = ExpectedRelease(int(revision).v)

\* a revision between two releases, and one past the last, got their post- label
C1_Witness ==
    /\ pc = "returned"
    /\ revision \in {PyStr("18778"), PyInt(34046)}
    /\ release \in {"post-4.0.0", "post-5.10.0"}

\* C4: getSlicerReleaseName is total over strings and numbers: it never raises,
\* and it returns "unknown" exactly for the inputs int() cannot parse.
C4_TotalOverStringsAndNumbers ==
    pc = "returned" =>
        /\ raised = "none"
        /\ (release = "unknown") <=> ~int(revision).ok

---------------------------------------------------------------------------
(* Calls on one ExtensionStatsLogic instance.                              *)

Map1(k, v) == k :> v
Map2(k1, v1, k2, v2) == (k1 :> v1) @@ (k2 :> v2)
Counts(m) == JMap([k \in DOMAIN m |-> PyInt(m[k])])

\* per-extension values: well formed, with cells outside the fixed platforms
\* and architectures, all zero, and deviating from the document's shape
WinOnly(c) == JMap(Map1("win", Counts(Map2("amd64", c, "arm64", 1))))
AllPlatforms ==
    JMap(Map2("macosx", Counts(Map1("arm64", 1)),
              "linux", Counts(Map2("amd64", 1, "arm64", 1)))
         @@ Map1("win", JMap(<<>>)))
OtherCells ==
    JMap(Map2("win", Counts(Map2("amd64", 2, "i386", 5)),
              "freebsd", Counts(Map1("amd64", 7))))
ZeroCells == JMap(Map1("linux", Counts(Map1("amd64", 0))))
BadCells(c) ==
    JMap(Map2("win", PyInt(3),
              "linux", JMap(Map2("amd64", PyStr("7"), "arm64", PyInt(c)))))

Extensions(m) == JMap(Map1("extensions", m))

\* the values a revision key has in the generated documents
WellFormedRevisions ==
    {Extensions(JMap(Map1("Foo", WinOnly(c)))) : c \in 1..MaxCount}
    \cup {Extensions(JMap(Map2("Foo", AllPlatforms, "Bar", OtherCells))),
          JMap(Map1("applications", JMap(<<>>)))}
DeviatingRevisions ==
    {Extensions(JMap(Map2("Foo", ZeroCells, "Bar", BadCells(1)) @@ Map1("Baz", PyInt(5)))),
     Extensions(None),
     None}
RevisionValues == WellFormedRevisions \cup DeviatingRevisions

\* the revision keys: two of one post-release bucket, and one that is no
\* number
RevisionKeys == {"18778", "18779", "abc"}

RECURSIVE ItemLists(_)
ItemLists(n) ==
    IF n = 0 THEN {<<>>}
    ELSE LET shorter == ItemLists(n - 1)
         IN shorter \cup
            {Append(items, <<k, v>>) :
                items \in {x \in shorter : Len(x) = n - 1},
                k \in RevisionKeys, v \in RevisionValues}

DistinctKeys(items) ==
    \A i, j \in 1..Len(items) : i # j => items[i][1] # items[j][1]

Documents == {JDoc(items) : items \in {x \in ItemLists(MaxRevs) : DistinctKeys(x)}}

\* what the server may hold: a stats document, or JSON of another type
ServerBodies == Documents \cup {None, PyInt(5), JList(<<>>)}

\* the JSON body of an error status
ErrorBody == JDoc(<< <<"message", PyStr("error")>> >>)

\* how a request may end: no answer, an error status, a body that is no
\* JSON, the server's document
Answers == {"network_error", "http_error", "bad_body", "ok"}
Response(kind) ==
    [kind |-> kind,
     body |-> IF kind = "ok" THEN server
              ELSE IF kind = "http_error" THEN ErrorBody ELSE None]

Filters == {None, JList(<<>>), JList(<<"Bar", "Baz">>)}

InitAggregate ==
    /\ pc = "idle"
    /\ raised = "none"
    /\ server \in ServerBodies
    /\ downloadstats = <<None>>
    /\ extensionNames = None
    /\ response = "none"
    /\ table = <<>>
    /\ ClassifyIdle /\ RunIdle /\ ResolveIdle
    /\ CatalogIdle /\ ReportIdle /\ TrafficIdle

\* logic.getExtensionDownloadStats(names) on instance i; the request, if
\* one is sent, ends as kind says
CallStats(i, names, kind) ==
    \E r \in {getExtensionDownloadStats(downloadstats[i], names, Response(kind))} :
       /\ downloadstats' = [downloadstats EXCEPT ![i] = r.stats]
       /\ extensionNames' = names
       /\ response' = (IF r.requested THEN kind ELSE "cached")
       /\ table' = r.table
       /\ raised' = r.raised

\* the ways the next request of instance i can end; one, unread, if the
\* instance holds a document and sends none
AnswersFor(i) == IF downloadstats[i] = None THEN Answers ELSE {"ok"}

\* one call logic.getExtensionDownloadStats(names)
CallGetExtensionDownloadStats ==
    /\ pc \in {"idle", "returned"}
    /\ \E names \in Filters, kind \in AnswersFor(1) : CallStats(1, names, kind)
    /\ pc' = "returned"
    /\ UNCHANGED <<server, classifyVars, runVars, resolveVars,
                   catalogVars, reportVars, trafficVars>>

NextAggregate == CallGetExtensionDownloadStats
SpecAggregate == InitAggregate /\ [][NextAggregate]_vars


\* table[extension][bucket], a missing key read as 0
Lookup(t, extension, bucket) ==
    IF extension \in DOMAIN t
    THEN (IF bucket \in DOMAIN t[extension] THEN t[extension][bucket] ELSE 0)
    ELSE 0

\* the count a revision's value holds at extensions/extension/platform/arch:
\* 0 unless every step of the path is an object that has the key and the
\* cell is an integer
CellCount(value, extension, platform, arch) ==
    IF value.t # "map" \/ "extensions" \notin DOMAIN value.m THEN 0
    ELSE LET exts == value.m["extensions"]
         IN IF exts.t # "map" \/ extension \notin DOMAIN exts.m THEN 0
            ELSE LET ext == exts.m[extension]
                 IN IF ext.t # "map" \/ platform \notin DOMAIN ext.m THEN 0
                    ELSE LET plat == ext.m[platform]
                         IN IF plat.t # "map" \/ arch \notin DOMAIN plat.m THEN 0
                            ELSE IF plat.m[arch].t = "int" THEN plat.m[arch].n ELSE 0

RevisionCount(value, extension) ==
    CellCount(value, extension, "win", "amd64") + CellCount(value, extension, "win", "arm64")
    + CellCount(value, extension, "macosx", "amd64") + CellCount(value, extension, "macosx", "arm64")
    + CellCount(value, extension, "linux", "amd64") + CellCount(value, extension, "linux", "arm64")

\* the sum over the revisions of the document that classify to the bucket
RECURSIVE ExpectedCount(_, _, _, _)
ExpectedCount(items, n, extension, bucket) ==
    IF n = 0 THEN 0
    ELSE ExpectedCount(items, n - 1, extension, bucket)
         + (IF getSlicerReleaseName(PyStr(items[n][1])).v = bucket
            THEN RevisionCount(items[n][2], extension) ELSE 0)

ExtensionUniverse == {"Foo", "Bar", "Baz", "Qux"}
Buckets ==
    {"unknown", "legacy"} \cup {e[1] : e \in CatalogEntries}
        \cup {"post-" \o e[1] : e \in CatalogEntries}

Returned == pc = "returned" /\ raised = "none"
HoldsDocument == downloadstats[1].t = "doc"

\* the documented shape of the counts: objects nested three deep over integers
IsPlatform(v) == v.t = "map" /\ \A k \in DOMAIN v.m : v.m[k].t = "int"
IsExtension(v) == v.t = "map" /\ \A k \in DOMAIN v.m : IsPlatform(v.m[k])
IsExtensions(v) == v.t = "map" /\ \A k \in DOMAIN v.m : IsExtension(v.m[k])
\* a revision's value of the documented shape; any key may be missing
IsRevision(v) ==
    v.t = "map" /\ ("extensions" \in DOMAIN v.m => IsExtensions(v.m["extensions"]))
WellFormed(doc) == \A i \in 1..Len(doc.items) : IsRevision(doc.items[i][2])

\* C2: for every stats document, the value of the unfiltered result at
\* [extension][bucket], a missing key read as 0, is the sum over the revision
\* keys that classify to the bucket of the extension's counts over
\* {win, macosx, linux} x {amd64, arm64}; a missing path contributes 0 and
\* other platforms and architectures are ignored.
C2_TableIsSumPerBucket ==
    (pc = "returned" /\ HoldsDocument /\ extensionNames = None) =>
        /\ WellFormed(downloadstats[1]) => raised = "none"
        /\ raised = "none" =>
            /\ DOMAIN table \subseteq ExtensionUniverse
            /\ \A extension \in DOMAIN table : DOMAIN table[extension] \subseteq Buckets
            /\ \A extension \in ExtensionUniverse, bucket \in Buckets :
                  Lookup(table, extension, bucket) =
                      ExpectedCount(downloadstats[1].items, Len(downloadstats[1].items),
                                    extension, bucket)

\* two revisions of one bucket were added up, cells of other platforms and
\* architectures left out
C2_Witness ==
    /\ Returned /\ HoldsDocument /\ extensionNames = None
    /\ Len(downloadstats[1].items) = 2
    /\ \A i \in 1..2 : downloadstats[1].items[i][1] \in {"18778", "18779"}
    /\ Lookup(table, "Foo", "post-4.0.0") = 5
    /\ Lookup(table, "Bar", "post-4.0.0") = 2

Permuted(items, p) == [i \in 1..Len(items) |-> items[p[i]]]

\* C3: processing the revision keys of the document in any order of iteration
\* yields the same table: the same extensions, buckets and counts.
C3_OrderIndependent ==
    (pc = "returned" /\ HoldsDocument) =>
        \A p \in Permutations(1..Len(downloadstats[1].items)) :
            LET other == Aggregate(JDoc(Permuted(downloadstats[1].items, p)), extensionNames)
            IN /\ other.ok <=> raised = "none"
               /\ other.ok => other.v = table

\* two revisions of one bucket with different counts were aggregated
C3_Witness ==
    /\ Returned /\ HoldsDocument
    /\ Len(downloadstats[1].items) = 2
    /\ \A i \in 1..2 : downloadstats[1].items[i][1] \in {"18778", "18779"}
    /\ RevisionCount(downloadstats[1].items[1][2], "Foo") = 2
    /\ RevisionCount(downloadstats[1].items[2][2], "Foo") = 3
    /\ Lookup(table, "Foo", "post-4.0.0") = 5

\* C5: with a filter that is a list, the empty list included, every extension
\* of the result is in the list and has the entry the unfiltered aggregation
\* gives it.
C5_ListFilterRestricts ==
    (Returned /\ HoldsDocument /\ extensionNames.t = "list") =>
        \A extension \in DOMAIN table :
            /\ \E i \in 1..Len(extensionNames.l) : extensionNames.l[i] = extension
            /\ table[extension] = Aggregate(downloadstats[1], None).v[extension]

\* C6: whatever the structure of the fetched document, no exception leaves
\* getExtensionDownloadStats, each deviating part contributes 0 and the well
\* formed parts are aggregated.
C6_NeverRaisesOnDocument ==
    (pc = "returned" /\ HoldsDocument) =>
        /\ raised = "none"
        /\ \A extension \in DOMAIN table, bucket \in Buckets :
              Lookup(table, extension, bucket) =
                  ExpectedCount(downloadstats[1].items, Len(downloadstats[1].items),
                                extension, bucket)

\* C7: when the request fails (no answer, an error status, a body that is no
\* JSON) the call returns the empty table, raises nothing and leaves the
\* instance's downloadstats unset.
C7_FailedFetchLeavesNothing ==
    (pc = "returned" /\ response \in {"network_error", "http_error", "bad_body"}) =>
        /\ raised = "none"
        /\ table = <<>>
        /\ downloadstats[1] = None

\* a request was answered with an error status while the server held a
\* document with downloads
C7_Witness ==
    /\ pc = "returned"
    /\ response = "http_error"
    /\ server.t = "doc"
    /\ Aggregate(server, None).ok /\ Aggregate(server, None).v # <<>>


---------------------------------------------------------------------------
(* Calls of the four methods on one ExtensionStatsLogic instance.          *)

\* the documents the server may hold while the methods are called
CatalogServerBodies ==
    {None,
     JDoc(<< <<"18778", Extensions(JMap(Map1("Foo", WinOnly(1))))>> >>),
     JDoc(<< <<"abc", Extensions(JMap(Map2("Foo", AllPlatforms, "Bar", OtherCells)))>>,
             <<"34045", Extensions(JMap(Map1("Bar", WinOnly(2))))>> >>)}

\* the arguments of getSlicerReleaseName
CatalogRevisionInputs ==
    {PyStr("18778"), PyStr("abc"), PyInt(0), PyInt(34045), PyInf}

\* ExtensionStatsLogic(): __init__ sorts the catalog
InitCatalog ==
    /\ pc = "idle"
    /\ raised = "none"
    /\ catalog = releases_revisionsDates
    /\ releaseNames = <<>>
    /\ server \in CatalogServerBodies
    /\ downloadstats = <<None>>
    /\ extensionNames = None
    /\ response = "none"
    /\ table = <<>>
    /\ ClassifyIdle /\ RunIdle /\ ResolveIdle
    /\ ReportIdle /\ TrafficIdle

\* one call logic.getSlicerReleaseNames()
CallGetSlicerReleaseNames ==
    /\ pc \in {"idle", "returned"}
    /\ releaseNames' = getSlicerReleaseNames(catalog)
    /\ raised' = "none"
    /\ pc' = "returned"
    /\ UNCHANGED <<catalog, classifyVars, logicVars, runVars, resolveVars,
                   reportVars, trafficVars>>

\* one call logic.getSlicerReleaseName(revision)
CallGetSlicerReleaseName ==
    /\ pc \in {"idle", "returned"}
    /\ \E x \in CatalogRevisionInputs :
          LET r == getSlicerReleaseName(x)
          IN /\ revision' = x
             /\ release' = (IF r.ok THEN r.v ELSE "")
             /\ raised' = (IF r.ok THEN "none" ELSE r.exc)
    /\ pc' = "returned"
    /\ UNCHANGED <<catalogVars, logicVars, runVars, resolveVars, reportVars, trafficVars>>

\* one call logic.getExtensionNames()
CallGetExtensionNames ==
    /\ pc \in {"idle", "returned"}
    /\ \E kind \in AnswersFor(1) : CallStats(1, None, kind)
    /\ known' = (IF raised' = "none" THEN SortedNames(DOMAIN table') ELSE known)
    /\ pc' = "returned"
    /\ UNCHANGED <<server, repos, repoIdx, extension_names, classifyVars, runVars,
                   catalogVars, reportVars, trafficVars>>

NextCatalog ==
    \/ CallGetSlicerReleaseNames
    \/ CallGetSlicerReleaseName
    \/ CallGetExtensionDownloadStats
    \/ CallGetExtensionNames
SpecCatalog == InitCatalog /\ [][NextCatalog]_vars

\* int() of the revision of a catalog entry
RevisionOf(item) == IntOfStr(item[2][1]).v

StrictlyAscending(revisionsDates) ==
    \A i \in 1..(Len(revisionsDates) - 1) :
        RevisionOf(revisionsDates[i]) < RevisionOf(revisionsDates[i + 1])

\* the release names of a set of <<name, revision>>, each followed by its
\* post- label, from the smallest revision on
RECURSIVE NamesByRevision(_)
NamesByRevision(entries) ==
    IF entries = {} THEN <<>>
    ELSE LET first == CHOOSE e \in entries : \A f \in entries : e[2] <= f[2]
         IN <<first[1], "post-" \o first[1]>> \o NamesByRevision(entries \ {first})

ExpectedReleaseNames == <<"unknown", "legacy">> \o NamesByRevision(CatalogEntries)

NoDuplicates(list) == \A i, j \in 1..Len(list) : list[i] = list[j] => i = j

\* C11: the catalog of the instance is in strictly ascending numeric revision
\* order, so with unique revisions; no call of getSlicerReleaseNames,
\* getSlicerReleaseName, getExtensionDownloadStats or getExtensionNames changes
\* it; and getSlicerReleaseNames returns "unknown", "legacy", then each release
\* followed by its post- label in ascending revision order: 2 + 2N labels, none
\* twice.
C11_CatalogAscendingAndListed ==
    /\ [](/\ StrictlyAscending(catalog)
          /\ {<<catalog[i][1], RevisionOf(catalog[i])>> : i \in 1..Len(catalog)} = CatalogEntries
          /\ releaseNames # <<>> =>
                /\ releaseNames = ExpectedReleaseNames
                /\ Len(releaseNames) = 2 + 2 * Cardinality(CatalogEntries)
                /\ NoDuplicates(releaseNames))
    /\ [][catalog' = catalog]_vars

\* the list was returned after the other three methods had been called on the
\* instance, a document fetched and a revision classified
C11_Witness ==
    /\ pc = "returned"
    /\ Len(releaseNames) = 68
    /\ downloadstats[1].t = "doc"
    /\ known = <<"Bar", "Foo">>
    /\ extensionNames = JList(<<"Bar", "Baz">>)
    /\ release = "5.10.0"

---------------------------------------------------------------------------
(* Calls of parse_concatenated_json.                                       *)

\* the objects a traffic-history file is made of: three well formed, one of
\* them without "views", and two malformed between their braces
TrafficObjects ==
    {"{\"count\":2,\"views\":[{\"timestamp\":\"d1\",\"count\":2}]}",
     "{\"count\":3,\"views\":[{\"timestamp\":\"d2\",\"count\":1},{\"timestamp\":\"d3\",\"count\":2}]}",
     "{\"message\":\"moved\"}",
     "{\"count\":1,\"views\":[{\"timestamp\":\"d4\",\"count\":}]}",
     "{\"count\":1,\"views\"[]}"}

\* the lists of 1 to n objects
RECURSIVE ObjectLists(_)
ObjectLists(n) ==
    IF n = 1 THEN {<<o>> : o \in TrafficObjects}
    ELSE LET shorter == ObjectLists(n - 1)
         IN shorter \cup
            {Append(l, o) : l \in {x \in shorter : Len(x) = n - 1}, o \in TrafficObjects}

\* the objects written back to back
Concatenated(objects) == join("", objects)

TrafficFiles == {Concatenated(objects) : objects \in ObjectLists(MaxObjects)}

InitTraffic ==
    /\ pc = "call"
    /\ raised = "none"
    /\ json_text \in TrafficFiles
    /\ all_views = <<>>
    /\ ClassifyIdle /\ LogicIdle /\ RunIdle /\ ResolveIdle
    /\ CatalogIdle /\ ReportIdle

\* one call parse_concatenated_json(json_file) on the file that holds json_text
ParseConcatenatedJson ==
    /\ pc = "call"
    /\ LET r == parse_concatenated_json(json_text)
       IN /\ all_views' = (IF r.ok THEN r.v ELSE <<>>)
          /\ raised' = (IF r.ok THEN "none" ELSE r.exc)
    /\ pc' = "returned"
    /\ UNCHANGED <<json_text, classifyVars, logicVars, runVars, resolveVars,
                   catalogVars, reportVars>>

NextTraffic == ParseConcatenatedJson
SpecTraffic == InitTraffic /\ [][NextTraffic]_vars

\* the "views" entries of the well-formed objects among the first n of a list
RECURSIVE ViewsOf(_, _)
ViewsOf(objects, n) ==
    IF n = 0 THEN <<>>
    ELSE LET data_obj == json_loads(objects[n])
         IN ViewsOf(objects, n - 1)
            \o (IF data_obj.ok /\ In("views", data_obj.v).v
                THEN Member(data_obj.v, "views").l ELSE <<>>)

\* C15: for every file made of one or more JSON objects written back to back,
\* a file of exactly one object included, parse_concatenated_json raises
\* nothing and all_views holds the "views" entries of every well-formed object,
\* in the order of the file; a malformed object costs only its own entries.
C15_KeepsWellFormedObjects ==
    pc = "returned" =>
        /\ raised = "none"
        /\ \A objects \in ObjectLists(MaxObjects) :
              Concatenated(objects) = json_text =>
                  all_views = ViewsOf(objects, Len(objects))

---------------------------------------------------------------------------
(* The loop of identify_slicer_extensions.                                 *)

Repo(display_name, name) == [display_name |-> display_name, name |-> name]

\* the repositories of the generated repos.json
RepoLibrary ==
    {Repo("MEMOs", "SlicerMEMOs"),
     Repo("photogrammetry", "SlicerPhotogrammetry"),
     Repo("Stats", "SlicerMorph"),
     Repo("Tutorials", "SlicerMorph"),
     Repo("Docs", "slicerMEMOs")}

RECURSIVE RepoLists(_)
RepoLists(n) ==
    IF n = 0 THEN {<<>>}
    ELSE LET shorter == RepoLists(n - 1)
         IN shorter \cup
            {Append(l, r) : l \in {x \in shorter : Len(x) = n - 1}, r \in RepoLibrary}

\* the names the server may know
ServerNames ==
    {"SlicerMEMOs", "MEMOs", "Photogrammetry", "photogrammetry",
     "SlicerPhotogrammetry", "Morph"}

InitResolve ==
    /\ pc = "loop"
    /\ raised = "none"
    /\ known \in {SortedNames(S) : S \in SUBSET ServerNames}
    /\ repos \in RepoLists(MaxRepos)
    /\ repoIdx = 0
    /\ extension_names = <<>>
    /\ ClassifyIdle /\ LogicIdle /\ RunIdle
    /\ CatalogIdle /\ ReportIdle /\ TrafficIdle

\* one iteration of the loop
ResolveNext ==
    /\ pc = "loop"
    /\ repoIdx < Len(repos)
    /\ repoIdx' = repoIdx + 1
    /\ extension_names' = IdentifyStep(extension_names, repos[repoIdx + 1], known)
    /\ UNCHANGED <<pc, raised, known, repos, classifyVars, logicVars, runVars,
                   catalogVars, reportVars, trafficVars>>

\* return extension_names
ResolveReturn ==
    /\ pc = "loop"
    /\ repoIdx = Len(repos)
    /\ pc' = "returned"
    /\ UNCHANGED <<raised, resolveVars, classifyVars, logicVars, runVars,
                   catalogVars, reportVars, trafficVars>>

NextResolve == ResolveNext \/ ResolveReturn
SpecResolve == InitResolve /\ [][NextResolve]_vars

KnownNames == {known[i] : i \in 1..Len(known)}
Matches(candidate) == \E k \in KnownNames : lower(k) = lower(candidate)

\* the candidate names of a repository, in the order of their priority
Candidates(repo) ==
    (IF repo.display_name \in DOMAIN SLICER_EXTENSION_MAP
     THEN <<SLICER_EXTENSION_MAP[repo.display_name]>> ELSE <<>>)
    \o <<repo.display_name, repo.name>>
    \o (IF startswith(repo.name, "Slicer")
        THEN <<SubSeq(repo.name, 7, Len(repo.name))>> ELSE <<>>)

\* what an iteration on repo may do to the list: append one known name that
\* is, case aside, the first candidate that matches; nothing if none matches
ResolvedByPriority(repo, before, after) ==
    LET c == Candidates(repo)
        hits == {i \in 1..Len(c) : Matches(c[i])}
    IN IF hits = {} THEN after = before
       ELSE LET first == CHOOSE i \in hits : \A j \in hits : i <= j
            IN \E k \in KnownNames :
                  /\ lower(k) = lower(c[first])
                  /\ after = Append(before, k)

\* C10: for every repository the loop considers, the attempts are made in the
\* order alias entry, display name, repository name, repository name without
\* its "Slicer" prefix, each compared case-insensitively with the known names;
\* the first that succeeds appends exactly one known name, in the server's
\* casing; if none succeeds nothing is appended, and the loop goes on to the
\* remaining repositories.
C10_ResolvesByPriority ==
    /\ [][repoIdx' = repoIdx + 1 =>
            (repos[repoIdx'].display_name \notin NonExtensions =>
                ResolvedByPriority(repos[repoIdx'], extension_names, extension_names'))]_vars
    /\ [](pc = "returned" => repoIdx = Len(repos))

\* after a repository that matched nothing, one was resolved by the name
\* without its prefix although its display name matched nothing
C10_Witness ==
    /\ pc = "returned"
    /\ repos = <<Repo("Docs", "slicerMEMOs"), Repo("Stats", "SlicerMorph")>>
    /\ known = <<"MEMOs", "Morph">>
    /\ extension_names = <<"Morph">>


---------------------------------------------------------------------------
(* Runs of the entry points: collect_extension_stats.main, and             *)
(* extension_stats_summary.main listing the extensions or querying some.   *)

\* revision keys of twelve buckets: no number, before the first release, and
\* at and just after each of the first five releases
ManyRevisions ==
    <<"abc", "100", "18777", "18778", "19033", "19034", "19886", "19887",
      "20313", "20314", "21298", "21299">>

\* a document with downloads of Foo in each of the twelve buckets, some counts
\* equal, and large counts of Bar in two of them
ManyReleases(c) ==
    JDoc([i \in 1..Len(ManyRevisions) |->
            <<ManyRevisions[i],
              Extensions(JMap(
                  Map1("Foo", WinOnly((i * c) % 4))
                  @@ (IF i \in {2, 5}
                      THEN Map1("Bar", JMap(Map1("linux", Counts(Map1("amd64", 617 * i)))))
                      ELSE <<>>)))>>])

\* the documents the server may hold during a run
RunServerBodies ==
    {JDoc(items) : items \in ItemLists(MaxRunRevs)}
    \cup {ManyReleases(c) : c \in 1..MaxCount}
    \cup {None, PyInt(5), JList(<<>>)}

\* the repos.json files of the runs of the collector
RunRepos ==
    {<<>>,
     <<Repo("Foo", "SlicerFoo")>>,
     <<Repo("Bar", "bar"), Repo("Docs", "SlicerFoo")>>,
     <<Repo("Tutorials", "Foo"), Repo("Stats", "SlicerBar"), Repo("Bar", "Bar")>>}

\* the --extensions arguments of the runs of the summary command
RunExtensions == {<<"Foo">>, <<"Bar", "Baz">>, <<"Foo", "Bar">>}

\* what the summary command is asked to write: --output with a .csv or
\* another suffix, --output with the .json suffix, no --output
Outputs == {"csv", "json", "console"}

Init ==
    /\ pc = "start"
    /\ raised = "none"
    /\ entry \in {"collect", "summary_list", "summary_query"}
    /\ server \in RunServerBodies
    /\ repos \in (IF entry = "collect" THEN RunRepos ELSE {<<>>})
    /\ extension_names \in (IF entry = "summary_query" THEN RunExtensions ELSE {<<>>})
    /\ downloadstats = <<>>
    /\ extensionNames = None
    /\ response = "none"
    /\ table = <<>>
    /\ requests = 0
    /\ exitCode = -1
    /\ report = FALSE
    /\ failedFetch = FALSE
    /\ known = <<>>
    /\ repoIdx = 0
    /\ output \in (IF entry = "summary_query" THEN Outputs
                   ELSE IF entry = "collect" THEN {"csv"} ELSE {"none"})
    /\ csv = <<>>
    /\ console = <<>>
    /\ markdown = ""
    /\ ClassifyIdle /\ CatalogIdle /\ TrafficIdle

\* logic = ExtensionStatsLogic(); logic.getExtensionDownloadStats(names), the
\* request ending as kind says
NewLogicCall(names, kind) ==
    \E r \in {getExtensionDownloadStats(None, names, Response(kind))} :
       /\ downloadstats' = Append(downloadstats, r.stats)
       /\ extensionNames' = names
       /\ response' = kind
       /\ table' = r.table
       /\ raised' = r.raised
       /\ requests' = requests + (IF r.requested THEN 1 ELSE 0)
       /\ failedFetch' = (failedFetch \/ kind # "ok")

\* the process ends: with the status main returned, or with 1 and a
\* traceback when an exception left main
Exit(status) == pc' = "done" /\ exitCode' = status

\* releases = logic.getSlicerReleaseNames() on the instance just constructed
RunReleases == getSlicerReleaseNames(releases_revisionsDates)

\* identify_slicer_extensions(), and main's test of its result
CollectIdentify ==
    /\ pc = "start" /\ entry = "collect"
    /\ \E kind \in Answers : NewLogicCall(None, kind)
    /\ IF raised' # "none"
       THEN /\ Exit(1)
            /\ UNCHANGED <<known, repoIdx, extension_names>>
       ELSE /\ known' = SortedNames(DOMAIN table')
            /\ repoIdx' = Len(repos)
            /\ extension_names' = IdentifyLoop(repos, Len(repos), known')
            /\ IF extension_names' = <<>>
               THEN Exit(0)
               ELSE pc' = "aggregate" /\ UNCHANGED exitCode
    /\ UNCHANGED <<server, entry, repos, report, classifyVars,
                   catalogVars, reportVars, trafficVars>>

\* the rest of main: a second ExtensionStatsLogic, its statistics for the
\* identified extensions, the CSV and the markdown table made of it (which
\* update_readme then writes into the README)
CollectAggregate ==
    /\ pc = "aggregate"
    /\ \E kind \in Answers : NewLogicCall(JList(extension_names), kind)
    /\ IF raised' # "none" THEN Exit(1) /\ UNCHANGED <<report, csv, markdown>>
       ELSE IF table' = <<>> THEN Exit(1) /\ UNCHANGED <<report, csv, markdown>>
       ELSE /\ Exit(0)
            /\ report' = TRUE
            /\ csv' = WriteCsv(extension_names, table', RunReleases)
            /\ markdown' = create_markdown_table(csv')
    /\ UNCHANGED <<server, entry, resolveVars, classifyVars, output, console,
                   catalogVars, trafficVars>>

\* main with --list-extensions: outside main's try block
SummaryList ==
    /\ pc = "start" /\ entry = "summary_list"
    /\ \E kind \in Answers : NewLogicCall(None, kind)
    /\ IF raised' # "none"
       THEN Exit(1) /\ UNCHANGED known
       ELSE Exit(0) /\ known' = SortedNames(DOMAIN table')
    /\ UNCHANGED <<server, entry, report, repos, repoIdx, extension_names, classifyVars,
                   catalogVars, reportVars, trafficVars>>

\* main with --extensions: create_summary_table inside main's try block.  Of
\* the JSON output, the dump of the table, only that it was written is kept.
SummaryQuery ==
    /\ pc = "start" /\ entry = "summary_query"
    /\ \E kind \in Answers : NewLogicCall(JList(extension_names), kind)
    /\ IF raised' # "none" THEN Exit(1) /\ UNCHANGED <<report, csv, console>>
       ELSE IF table' = <<>> THEN Exit(0) /\ UNCHANGED <<report, csv, console>>
       ELSE /\ Exit(0)
            /\ report' = TRUE
            /\ csv' = (IF output = "csv"
                       THEN WriteCsv(extension_names, table', RunReleases) ELSE csv)
            /\ console' = (IF output = "console"
                           THEN ConsoleSummary(extension_names, table',
                                               downloadstats'[Len(downloadstats')])
                           ELSE console)
    /\ UNCHANGED <<server, entry, resolveVars, classifyVars, output, markdown,
                   catalogVars, trafficVars>>

Next == CollectIdentify \/ CollectAggregate \/ SummaryList \/ SummaryQuery
Spec == Init /\ [][Next]_vars

\* C8: in every run of an entry point that needs the stats document, a
\* failed fetch is fatal: the run ends with a non-zero status and builds no
\* report.
C8_FailedFetchIsFatal ==
    (pc = "done" /\ failedFetch) => (exitCode # 0 /\ ~report)

\* C9: in one run the stats document is requested at most once.
C9_AtMostOneRequest == requests <= 1

\* the file holds the header and one row per name of the list, in its order,
\* each row with one cell per label of the header: the count of the table, 0
\* if the table has none
CsvHolds(names) ==
    /\ csv[1] = <<"Extension Name">> \o ExpectedReleaseNames
    /\ Len(csv) = 1 + Len(names)
    /\ \A i \in 1..Len(names) :
          /\ csv[i + 1][1] = names[i]
          /\ Len(csv[i + 1]) = Len(csv[1])
          /\ \A j \in 2..Len(csv[1]) :
                IntOfStr(csv[i + 1][j]) = Ok(Lookup(table, names[i], csv[1][j]))

\* the requested extensions the aggregated table has an entry for
WithData == SelectSeq(extension_names, LAMBDA name : name \in DOMAIN table)

\* C12 as stated: the CSV file holds the header "Extension Name" and the full
\* list of bucket labels, then exactly one row per requested extension in the
\* requested order, each with one cell per label holding the aggregated count
\* or 0.
C12_OneRowPerRequestedExtension == csv # <<>> => CsvHolds(extension_names)

\* C12: the CSV file holds the header "Extension Name" and the full list of
\* bucket labels, then exactly one row per requested extension that has an
\* entry in the aggregated table, in the requested order; a requested extension
\* without one gets no row.  Each row has one cell per label of the header,
\* holding the aggregated count or 0.
C12_OneRowPerExtensionWithData == csv # <<>> => CsvHolds(WithData)

\* the summary command wrote the file for Bar and Baz, the server knowing
\* downloads of Bar only
C12_Witness ==
    /\ pc = "done" /\ entry = "summary_query" /\ output = "csv"
    /\ extension_names = <<"Bar", "Baz">>
    /\ Len(csv) = 2
    /\ csv[2][1] = "Bar" /\ csv[2][2] = "0" /\ csv[2][3] = "1234"


\* the lines of the markdown text, and the cells of a line "| a | b |"
MarkdownLines == Split(SubSeq(markdown, 1, Len(markdown) - 1), "\n")
MarkdownCells(line) == Split(SubSeq(line, 3, Len(line) - 2), " | ")

\* the number a cell shows, its thousands separators removed
NumberOf(cell) == IntOfStr(join("", Split(cell, ","))).v

RECURSIVE SumFrom(_, _)
SumFrom(cells, c) == IF c > Len(cells) THEN 0 ELSE NumberOf(cells[c]) + SumFrom(cells, c + 1)

\* the bucket labels of the CSV file that have a count other than 0 in some
\* row, in the order of the file's header
NonZeroLabels ==
    SelectSeq(Tail(csv[1]),
              LAMBDA label :
                  \E r \in 2..Len(csv), c \in 2..Len(csv[1]) :
                      csv[1][c] = label /\ IntOfStr(csv[r][c]).v # 0)

\* C13: the markdown table made of the CSV file of aggregated counts has no
\* bucket column whose cell is 0 in every row, keeps every bucket column that
\* has a non-zero cell, in the order of the file, and has "Total Downloads" as
\* its second column, whose value in each row is the sum of the row's visible
\* bucket cells.
C13_MarkdownShowsNonZeroColumns ==
    (pc = "done" /\ entry = "collect" /\ csv # <<>>) =>
        LET lines == MarkdownLines
            header == MarkdownCells(lines[1])
            cells(r) == MarkdownCells(lines[r + 2])
            data == 1..(Len(csv) - 1)
        IN /\ Len(lines) = Len(csv) + 1
           /\ header[1] = "Extension Name"
           /\ header[2] = "Total Downloads"
           /\ SubSeq(header, 3, Len(header)) = NonZeroLabels
           /\ \A c \in 3..Len(header) : \E r \in data : NumberOf(cells(r)[c]) # 0
           /\ \A r \in data :
                 /\ Len(cells(r)) = Len(header)
                 /\ cells(r)[1] = csv[r + 1][1]
                 /\ NumberOf(cells(r)[2]) = SumFrom(cells(r), 3)
                 /\ \A c \in 3..Len(header) :
                       \E k \in 2..Len(csv[1]) :
                           /\ csv[1][k] = header[c]
                           /\ NumberOf(cells(r)[c]) = IntOfStr(csv[r + 1][k]).v

\* the collector made the table for Bar and Foo: twelve of the 68 bucket
\* columns are kept; Bar has 0 in ten of them and 4,319 downloads in all
C13_Witness ==
    /\ pc = "done" /\ entry = "collect"
    /\ extension_names = <<"Bar", "Foo">>
    /\ Len(csv) = 3 /\ Len(csv[1]) = 69
    /\ Len(MarkdownCells(MarkdownLines[1])) = 14
    /\ SubSeq(MarkdownCells(MarkdownLines[3]), 1, 4) = <<"Bar", "4,319", "0", "1,234">>


\* the lines of one kind the console summary printed
LinesOf(kind) == SelectSeq(console, LAMBDA line : line[1] = kind)

\* the positions of the lines that open an extension's breakdown, and the
\* lines of the k-th breakdown
ExtensionPositions ==
    SelectSeq([i \in 1..Len(console) |-> i], LAMBDA i : console[i][1] = "extension")
Block(k) ==
    SubSeq(console, ExtensionPositions[k] + 1,
           IF k < Len(ExtensionPositions) THEN ExtensionPositions[k + 1] - 1
           ELSE Len(console))

\* the total lines come first and show, per line, an extension's total
TotalsShown ==
    /\ \A i, j \in 1..Len(console) :
          (console[i][1] = "total" /\ console[j][1] \in {"extension", "release"}) => i < j
    /\ \A i \in 1..Len(LinesOf("total")) :
          LET line == LinesOf("total")[i]
          IN /\ line[2] \in DOMAIN table
             /\ NumberOf(line[3]) = SumValues(table[line[2]], DOMAIN table[line[2]])

\* each extension with data has a breakdown of at most 10 lines: buckets of
\* the table with their counts, none 0, in descending order of the count, and
\* no bucket left out has a higher count than one shown
BreakdownShowsTop ==
    /\ [k \in 1..Len(ExtensionPositions) |-> console[ExtensionPositions[k]][2]] = WithData
    /\ \A k \in 1..Len(ExtensionPositions) :
          LET row == table[WithData[k]]
              block == Block(k)
              count(i) == NumberOf(block[i][3])
              shown == {block[i][2] : i \in 1..Len(block)}
          IN /\ Len(block) <= 10
             /\ \A i \in 1..Len(block) :
                   /\ block[i][1] = "release"
                   /\ block[i][2] \in DOMAIN row
                   /\ count(i) = row[block[i][2]]
                   /\ count(i) # 0
             /\ \A i, j \in 1..Len(block) :
                   i < j => (count(i) >= count(j) /\ block[i][2] # block[j][2])
             /\ \A b \in DOMAIN row \ shown :
                   row[b] # 0 =>
                       /\ Len(block) = 10
                       /\ \A i \in 1..Len(block) : count(i) >= row[b]

\* C14 as stated: the console summary prints the total lines sorted by total
\* downloads descending, then for each extension at most 10 bucket lines: its
\* buckets with the highest non-zero counts, in descending count order.
C14_TotalsSortedDescending ==
    console # <<>> =>
        /\ TotalsShown
        /\ \A i, j \in 1..Len(LinesOf("total")) :
              i < j => NumberOf(LinesOf("total")[i][3]) >= NumberOf(LinesOf("total")[j][3])
        /\ BreakdownShowsTop

\* C14: the console summary prints one total line per requested extension
\* that has an entry in the aggregated table, in the requested order, then for
\* each of these extensions at most 10 bucket lines: its buckets with the
\* highest non-zero counts, in descending count order.
C14_TotalsInRequestedOrder ==
    console # <<>> =>
        /\ TotalsShown
        /\ [i \in 1..Len(LinesOf("total")) |-> LinesOf("total")[i][2]] = WithData
        /\ BreakdownShowsTop

\* Foo, with downloads in twelve buckets, was requested before Bar, which has
\* more downloads: Foo's total is printed first, and ten lines of its buckets,
\* the last a bucket with the lowest count
C14_Witness ==
    /\ pc = "done" /\ output = "console"
    /\ extension_names = <<"Foo", "Bar">>
    /\ LinesOf("total") = << <<"total", "Foo", "30">>, <<"total", "Bar", "4,319">> >>
    /\ Cardinality(DOMAIN table["Foo"]) = 12
    /\ Len(Block(1)) = 10
    /\ Block(1)[1] = <<"release", "4.0.0", "4">>
    /\ Block(1)[10] = <<"release", "post-4.0.0", "1">>


\* every label getSlicerReleaseName returns, for the revisions at and around
\* each catalog entry and for the keys that are no number, is in the list
\* getSlicerReleaseNames returns
LabelsAreListed ==
    \A x \in ClassifyInputs \cup {PyStr(k) : k \in RevisionKeys} :
        getSlicerReleaseName(x).ok =>
            \E i \in 1..Len(RunReleases) : RunReleases[i] = getSlicerReleaseName(x).v

RECURSIVE CellSum(_, _)
CellSum(row, c) == IF c > Len(row) THEN 0 ELSE IntOfStr(row[c]).v + CellSum(row, c + 1)

\* C16: every label getSlicerReleaseName can return is an element of
\* getSlicerReleaseNames(), so for every extension written to the CSV file the
\* sum of the cells of its row equals the sum of all counts the aggregated
\* table stores for the extension.
C16_NoDownloadLost ==
    /\ LabelsAreListed
    /\ csv # <<>> =>
          \A r \in 2..Len(csv) :
              /\ csv[r][1] \in DOMAIN table
              /\ \A bucket \in DOMAIN table[csv[r][1]] :
                    \E c \in 2..Len(csv[1]) : csv[1][c] = bucket
              /\ CellSum(csv[r], 2) =
                    SumValues(table[csv[r][1]], DOMAIN table[csv[r][1]])

\* the collector wrote the rows of Bar and Foo; Foo's 30 downloads are spread
\* over twelve buckets, "unknown", "legacy" and post- buckets among them
C16_Witness ==
    /\ pc = "done" /\ entry = "collect"
    /\ Len(csv) = 3
    /\ csv[3][1] = "Foo"
    /\ {"unknown", "legacy", "post-4.2.0"} \subseteq DOMAIN table["Foo"]
    /\ CellSum(csv[3], 2) = 30
    /\ CellSum(csv[2], 2) = 4319


=============================================================================
